---- MODULE Spec2Model ----
(***************************************************************************)
(* Model of the /zoom slash command of mattermost-plugin-zoom              *)
(* (server/command.go): the command parser, the dispatcher, the            *)
(* meeting-start decision engine and the connect / disconnect / setting /  *)
(* help operations, run by request threads against the externally owned    *)
(* stores (preferences, pending OAuth state, credentials, channel posts).  *)
(***************************************************************************)
EXTENDS Integers, Sequences, FiniteSets, TLC

\* ------------------------------------------------------------------ bounds
\* Number of command invocations the host hands to the plugin in one run.
MaxInvocations == 2
\* Meeting ids the provider mints for fresh meetings are 1..MaxMeetingID.
MaxMeetingID == 1
\* Longest raw command string given to the parser, in pieces (a piece is one
\* word or one whitespace character).
MaxCommandLen == 8

\* ------------------------------------------------------- program constants
\* var meetingID int = -1
NoMeeting == -1

actionConnect == "connect"
actionStart == "start"
actionDisconnect == "disconnect"
actionHelp == "help"
actionSetting == "setting"
alreadyConnectedText == "Already connected"
zoomPMISettingValueAsk == "ask"
preferenceUpdateError == "Cannot update preference in zoom setting"
trueString == "true"
falseString == "false"
telemetryStartSourceCommand == "command"
\* The topic constant passed by runStartCommand, as pieces of text.
defaultMeetingTopic == <<"Zoom", " ", "Meeting">>

\* ------------------------------------------------------------ the universe
Users == {"admin", "member"}
Channels == {"c1", "c2"}
Threads == {1, 2}
\* The one request thread of the sequential specification.
SeqThreads == {1}

\* user.IsSystemAdmin()
IsSystemAdmin(u) == u = "admin"
\* zoomUser.Pmi of the provider identity linked to a chat user.
Pmi(u) == IF u = "admin" THEN 101 ELSE 102

\* A preference value written by some other client of the preference store.
LegacyPref == "yes"
\* The preference store when the plugin starts: nothing stored, or such a
\* value stored for one user.
InitPrefs ==
    { [u \in Users |-> ""],
      [u \in Users |-> IF u = "member" THEN LegacyPref ELSE ""] }

\* Raw command strings, as pieces: a word, or one whitespace character " ".
StartCommands ==
    { <<"/zoom", " ", "start">>,
      <<"/zoom", " ", " ", "start", " ", "team", " ", " ", "sync">> }
Commands ==
    StartCommands \cup
    { <<"/zoom", " ", "connect">>,
      <<"/zoom", " ", "disconnect">>,
      <<"/zoom", " ", "help">>,
      <<"/zoom", " ", "setting">>,
      <<"/zoom", " ", "setting", " ", "use_pmi">>,
      <<"/zoom", " ", "setting", " ", "use_pmi", " ", "true">>,
      <<"/zoom", " ", "setting", " ", "use_pmi", " ", "false">>,
      <<"/zoom", " ", "setting", " ", "use_pmi", " ", "ask">>,
      <<"/zoom", " ", "setting", " ", "use_pmi", " ", "foo">>,
      <<"/zoom", " ", "setting", " ", "bogus">>,
      <<"/zoom", " ", "Start">>,
      <<"/zoom">>,
      <<"/meet", " ", "start">>,
      <<" ">>,
      << >> }

\* ------------------------------------------------------------ text helpers
\* A message is a format text and the value of its one %v / %s argument.
Msg(text, arg) == [text |-> text, arg |-> arg]
EmptyMsg == Msg("", "")
IsEmptyMsg(m) == m.text = "" /\ m.arg = ""
NoErr == "nil"
NoPending == [channel |-> "", flag |-> FALSE, set |-> FALSE]

\* strings.Fields: the maximal runs of non-whitespace pieces.
Fields(raw) == SelectSeq(raw, LAMBDA x : x # " ")

\* split[from:] of a Go slice (0-based from).
SliceFrom(split, from) ==
    IF from >= Len(split) THEN << >> ELSE SubSeq(split, from + 1, Len(split))

\* strings.Join(elems, " ")
RECURSIVE Join(_)
Join(elems) ==
    IF Len(elems) = 0 THEN << >>
    ELSE IF Len(elems) = 1 THEN <<elems[1]>>
    ELSE <<elems[1], " ">> \o Join(Tail(elems))

\* The remainder is joined into the topic whatever the action is.
parseCommand_TopicAlways(rawCommand) ==
    LET split == Fields(rawCommand) IN
    IF Len(split) = 0
    THEN [panic |-> TRUE, cmd |-> "", action |-> "", topic |-> << >>]
    ELSE LET action == IF Len(split) > 1 THEN split[2] ELSE "" IN
         [panic |-> FALSE,
          cmd |-> split[1],
          action |-> action,
          topic |-> Join(SliceFrom(split, 2))]

\* parseCommand; panic = TRUE is the index-out-of-range of split[0].
parseCommand(rawCommand) ==
    LET split == Fields(rawCommand) IN
    IF Len(split) = 0
    THEN [panic |-> TRUE, cmd |-> "", action |-> "", topic |-> << >>]
    ELSE LET action == IF Len(split) > 1 THEN split[2] ELSE "" IN
         [panic |-> FALSE,
          cmd |-> split[1],
          action |-> action,
          topic |-> IF action = actionStart THEN Join(SliceFrom(split, 2)) ELSE << >>]

\* ------------------------------------------------------------------- state
VARIABLES
    config,       \* deployment configuration {EnableOAuth, AccountLevelApp}
    pref,         \* preference store: user -> stored use-pmi value ("" = unset)
    pending,      \* pending OAuth state store: user -> entry
    superToken,   \* a shared superuser token is stored
    linked,       \* users with a stored per-user OAuth identity
    live,         \* channel -> meeting announcements inside the lookback window
    th,           \* request thread -> its invocation's frame
    invoked       \* invocations handed to the plugin so far

vars == <<config, pref, pending, superToken, linked, live, th, invoked>>

\* The frame of an invocation that has not started.
Frame(u, c, raw) ==
    [pc |-> "idle", user |-> u, channel |-> c, command |-> raw,
     cmd |-> "", action |-> "", topic |-> << >>, userOK |-> TRUE,
     member |-> "na", found |-> "na", auth |-> "na", prefRead |-> "na",
     prefAt |-> "", credFound |-> "na",
     store |-> "na", wrote |-> NoPending, prior |-> NoPending, zoomPmi |-> NoMeeting,
     meetingID |-> NoMeeting, createErr |-> FALSE, createTopic |-> << >>,
     confirmPosts |-> 0, askPrompts |-> 0, createCalls |-> 0,
     announcements |-> 0, announcedID |-> NoMeeting, announcedTopic |-> << >>,
     telemetry |-> << >>, pendingWrites |-> 0, removals |-> 0,
     disconnectTracks |-> 0, prefWrites |-> 0, prefTried |-> << >>,
     postCalls |-> 0,
     warnStore |-> 0, warnExec |-> 0, ephemerals |-> << >>, publicPosts |-> 0,
     raced |-> FALSE, dupPost |-> FALSE,
     msg |-> EmptyMsg, err |-> NoErr]

IdleFrame == Frame("", "", << >>)

\* return msg, err from the dispatcher or one of its operations
Return(r, msg, err) == [r EXCEPT !.pc = "respond", !.msg = msg, !.err = err]

Init ==
    /\ config \in [EnableOAuth : BOOLEAN, AccountLevelApp : BOOLEAN]
    /\ pref \in InitPrefs
    /\ pending = [u \in Users |-> NoPending]
    /\ superToken = FALSE
    /\ linked = {}
    /\ live = [c \in Channels |-> 0]
    /\ th = [t \in Threads |-> IdleFrame]
    /\ invoked = 0

\* p.OAuthEnabled()
OAuthEnabled == config.EnableOAuth

\* --------------------------------------------------------------- dispatcher
\* executeCommand up to the routing switch; userFound is GetUser's outcome.
\* The user is resolved before the command name and the action are checked.
executeCommand_UserFirst(r, userFound) ==
    LET p == parseCommand(r.command) IN
    IF p.panic THEN [r EXCEPT !.pc = "panic"]
    ELSE IF ~userFound
    THEN Return(r, Msg("We could not retrieve user (userId: %v)", r.user), NoErr)
    ELSE IF p.cmd # "/zoom"
    THEN Return(r, Msg("Command '%s' is not /zoom. Please try again.", p.cmd), NoErr)
    ELSE IF p.action = ""
    THEN Return(r, Msg("Please specify an action for /zoom command.", ""), NoErr)
    ELSE IF p.action \in {actionConnect, actionStart, actionDisconnect,
                          actionHelp, actionSetting}
    THEN [r EXCEPT !.pc = p.action, !.action = p.action, !.topic = p.topic]
    ELSE Return(r, Msg("Unknown action %v", p.action), NoErr)

executeCommand(r, userFound) ==
    LET p == parseCommand(r.command) IN
    IF p.panic THEN [r EXCEPT !.pc = "panic"]
    ELSE IF p.cmd # "/zoom"
    THEN Return(r, Msg("Command '%s' is not /zoom. Please try again.", p.cmd), NoErr)
    ELSE IF p.action = ""
    THEN Return(r, Msg("Please specify an action for /zoom command.", ""), NoErr)
    ELSE IF ~userFound
    THEN Return(r, Msg("We could not retrieve user (userId: %v)", r.user), NoErr)
    ELSE IF p.action \in {actionConnect, actionStart, actionDisconnect,
                          actionHelp, actionSetting}
    THEN [r EXCEPT !.pc = p.action, !.action = p.action, !.topic = p.topic]
    ELSE Return(r, Msg("Unknown action %v", p.action), NoErr)

\* ExecuteCommand is entered on thread t with some CommandArgs: a command of
\* cmds issued in a channel of chans.
ExecuteCommand(t, cmds, chans) ==
    /\ th[t].pc \in {"idle", "done", "panic"}
    /\ invoked < MaxInvocations
    /\ \E u \in Users, c \in chans, raw \in cmds, userFound \in BOOLEAN :
          th' = [th EXCEPT ![t] =
                   executeCommand([Frame(u, c, raw) EXCEPT !.userOK = userFound],
                                  userFound)]
    /\ invoked' = invoked + 1
    /\ UNCHANGED <<config, pref, pending, superToken, linked, live>>

\* A response is posted even when the message is empty.
Delivers_Always(msg) == TRUE

\* Whether ExecuteCommand posts the response: if msg != "".
Delivers(msg) == ~IsEmptyMsg(msg)

\* ExecuteCommand after executeCommand returned: log, postCommandResponse.
Respond(t) ==
    /\ th[t].pc = "respond"
    /\ LET r == th[t] IN
       th' = [th EXCEPT ![t] =
                [r EXCEPT !.pc = "done",
                          !.warnExec = IF r.err # NoErr THEN @ + 1 ELSE @,
                          !.ephemerals = IF Delivers(r.msg)
                                         THEN Append(@, [to |-> r.user, text |-> r.msg])
                                         ELSE @]]
    /\ UNCHANGED <<config, pref, pending, superToken, linked, live, invoked>>

\* ------------------------------------------------- external collaborators
\* p.checkPreviousMessages(channelID): the Recent-Meeting Detector's outcomes.
checkPreviousMessages(c) ==
    { [found |-> live[c] > 0, err |-> FALSE], [found |-> FALSE, err |-> TRUE] }

\* Whether a provider credential can be resolved for the user.
HasCredential(u) ==
    IF ~OAuthEnabled THEN TRUE
    ELSE IF config.AccountLevelApp THEN superToken
    ELSE u \in linked

\* The AuthError of an unresolved identity: {Message, Err}.
AuthRequired == [Message |-> Msg("OAuthPrompt", "siteURL"), Err |-> "not connected"]

\* p.authenticateAndFetchZoomUser(user): the Identity/Auth Resolver's outcomes.
authenticateAndFetchZoomUser(u) ==
    { [ok |-> FALSE, Pmi |-> NoMeeting, authErr |-> AuthRequired] } \cup
    ( IF HasCredential(u)
      THEN { [ok |-> TRUE, Pmi |-> Pmi(u), authErr |-> AuthRequired] }
      ELSE {} )

\* p.getPMISettingData(userID): the stored value, or a storage error.
getPMISettingData(u) ==
    { [val |-> pref[u], err |-> FALSE], [val |-> "", err |-> TRUE] }

\* p.createMeetingWithoutPMI(...): a fresh meeting id, or (-1, error).
createMeetingWithoutPMI ==
    { [id |-> m, err |-> FALSE] : m \in 1..MaxMeetingID } \cup
    { [id |-> NoMeeting, err |-> TRUE] }

\* The entry p.storeOAuthUserState(userID, channelID, flag) writes.
PendingEntry(c, flag) == [channel |-> c, flag |-> flag, set |-> TRUE]

\* p.storeOAuthUserState(userID, channelID, flag) when the write succeeds: the
\* user's entry is overwritten.
storeOAuthUserState(u, entry) == [pending EXCEPT ![u] = entry]

\* ------------------------------------------------ meeting-start decisions
\* The recent-meeting guard not stopping at a found meeting.
RecentGuard_NoReuse(scan) ==
    IF scan.err THEN "error" ELSE "continue"

\* The recent-meeting guard carrying on after a failed scan.
RecentGuard_ErrContinues(scan) ==
    IF scan.found THEN "reuse" ELSE "continue"

\* runStartCommand, recent-meeting guard: what the scan's outcome leads to.
RecentGuard(scan) ==
    IF scan.err THEN "error"
    ELSE IF scan.found THEN "reuse"
    ELSE "continue"

\* The pending connection recorded under the user's id instead of the channel's.
StartPendingEntry_UserAsChannel(r) == PendingEntry(r.user, FALSE)

\* runStartCommand, the pending connection it records on an auth failure.
StartPendingEntry(r) == PendingEntry(r.channel, FALSE)

\* A failed storeOAuthUserState in runStartCommand escalated to the caller.
AuthFailReturn_Escalates(r, authErr, stored) ==
    IF stored
    THEN Return([r EXCEPT !.auth = "fail", !.store = "ok",
                          !.wrote = StartPendingEntry(r), !.pendingWrites = @ + 1],
                authErr.Message, authErr.Err)
    ELSE Return([r EXCEPT !.auth = "fail", !.store = "err"],
                EmptyMsg, "cannot store state")

\* runStartCommand, auth guard failing: the frame returned; stored is whether
\* storeOAuthUserState succeeded.
AuthFailReturn(r, authErr, stored) ==
    Return([r EXCEPT !.auth = "fail",
                     !.store = IF stored THEN "ok" ELSE "err",
                     !.wrote = IF stored THEN StartPendingEntry(r) ELSE @,
                     !.pendingWrites = IF stored THEN @ + 1 ELSE @,
                     !.warnStore = IF stored THEN @ ELSE @ + 1],
           authErr.Message, authErr.Err)

\* The preference "true" minting a fresh meeting like "false".
PMIBranch_TrueCreates(val, readErr) ==
    IF readErr THEN "ask"
    ELSE IF val \in {"", zoomPMISettingValueAsk} THEN "ask"
    ELSE "create"

\* A failed preference lookup treated like a concrete value.
PMIBranch_ReadErrCreates(val, readErr) ==
    IF readErr THEN "create"
    ELSE IF val \in {"", zoomPMISettingValueAsk} THEN "ask"
    ELSE IF val = trueString THEN "pmi"
    ELSE "create"

\* The preference "false" treated like "true".
PMIBranch_FalseUsesPMI(val, readErr) ==
    IF readErr THEN "ask"
    ELSE IF val \in {"", zoomPMISettingValueAsk} THEN "ask"
    ELSE IF val \in {trueString, falseString} THEN "pmi"
    ELSE "create"

\* runStartCommand, PMI-preference guard: the branch taken for the value read.
PMIBranch(val, readErr) ==
    IF readErr THEN "ask"
    ELSE IF val \in {"", zoomPMISettingValueAsk} THEN "ask"
    ELSE IF val = trueString THEN "pmi"
    ELSE "create"

\* The user-supplied topic handed to the provider.
CreateTopicArg_UserTopic(topic) == topic

\* runStartCommand, the topic handed to createMeetingWithoutPMI.
CreateTopicArg(topic) == defaultMeetingTopic

\* runStartCommand, the topic handed to postMeeting.
PostTopicArg(topic) == defaultMeetingTopic

\* Post & track without the silent return of the ask branch.
PostBranch_NoSilent(meetingID, createErr) ==
    IF createErr THEN "error" ELSE "post"

\* runStartCommand, post & track: what meetingID and createMeetingErr lead to.
PostBranch(meetingID, createErr) ==
    IF meetingID = NoMeeting /\ ~createErr THEN "silent"
    ELSE IF meetingID = NoMeeting \/ createErr THEN "error"
    ELSE "post"

\* The reuse branch returning without its confirmation post.
ReuseReturn_NoConfirm(m) == Return(m, EmptyMsg, NoErr)

\* runStartCommand, a recent meeting found: postConfirm, return "", nil.
ReuseReturn(m) == Return([m EXCEPT !.confirmPosts = @ + 1], EmptyMsg, NoErr)

\* ------------------------------------------------------ runStartCommand
\* Membership guard and recent-meeting guard.
StartCheck(t) ==
    /\ th[t].pc = actionStart
    /\ LET r == th[t] IN
       \E memberOK \in BOOLEAN, scan \in checkPreviousMessages(r.channel) :
          th' = [th EXCEPT ![t] =
             IF ~memberOK
             THEN Return([r EXCEPT !.member = "err"],
                         Msg("We could not get channel members (channelId: %v)",
                             r.channel), NoErr)
             ELSE LET m == [r EXCEPT !.member = "ok",
                                     !.found = IF scan.err THEN "err"
                                               ELSE IF scan.found THEN "yes" ELSE "no"] IN
                  CASE RecentGuard(scan) = "error" ->
                         Return(m, Msg("Error checking previous messages", ""), NoErr)
                    [] RecentGuard(scan) = "reuse" -> ReuseReturn(m)
                    [] OTHER -> [m EXCEPT !.pc = "start_auth"]]
    /\ UNCHANGED <<config, pref, pending, superToken, linked, live, invoked>>

\* Auth guard.
StartAuth(t) ==
    /\ th[t].pc = "start_auth"
    /\ LET r == th[t] IN
       \E res \in authenticateAndFetchZoomUser(r.user), stored \in BOOLEAN :
          IF res.ok
          THEN /\ th' = [th EXCEPT ![t] = [r EXCEPT !.auth = "ok",
                                                    !.zoomPmi = res.Pmi,
                                                    !.pc = "start_decide"]]
               /\ UNCHANGED pending
          ELSE /\ th' = [th EXCEPT ![t] =
                           [AuthFailReturn(r, res.authErr, stored) EXCEPT
                               !.prior = pending[r.user]]]
               /\ pending' = IF stored
                             THEN storeOAuthUserState(r.user, StartPendingEntry(r))
                             ELSE pending
    /\ UNCHANGED <<config, pref, superToken, linked, live, invoked>>

\* PMI-preference guard: ask, use the PMI, or create a fresh meeting.
StartDecide(t) ==
    /\ th[t].pc = "start_decide"
    /\ LET r == th[t] IN
       \E rd \in getPMISettingData(r.user), cr \in createMeetingWithoutPMI :
          LET seen == [r EXCEPT !.prefRead = IF rd.err THEN "err" ELSE rd.val,
                                !.prefAt = pref[r.user],
                                !.pc = "start_post"]
              branch == PMIBranch(rd.val, rd.err)
          IN th' = [th EXCEPT ![t] =
                CASE branch = "ask" -> [seen EXCEPT !.askPrompts = @ + 1]
                  [] branch = "pmi" -> [seen EXCEPT !.meetingID = r.zoomPmi]
                  [] OTHER -> [seen EXCEPT !.createCalls = @ + 1,
                                           !.createTopic = CreateTopicArg(r.topic),
                                           !.meetingID = cr.id,
                                           !.createErr = cr.err]]
    /\ UNCHANGED <<config, pref, pending, superToken, linked, live, invoked>>

\* Frames of other threads: one past its recent-meeting guard in channel c has
\* been overtaken by an announcement in c.
Overtaken(t, c) ==
    [s \in Threads |->
        IF s # t /\ th[s].channel = c
              /\ th[s].pc \in {"start_auth", "start_decide", "start_post"}
        THEN [th[s] EXCEPT !.raced = TRUE]
        ELSE th[s]]

\* The start event tracked whether or not the announcement was posted.
PostReturn_TrackAlways(r, posted) ==
    LET tracked == [r EXCEPT !.postCalls = @ + 1,
                             !.telemetry = Append(@, telemetryStartSourceCommand)]
    IN IF posted
       THEN Return([tracked EXCEPT !.announcements = @ + 1,
                                   !.announcedID = r.meetingID,
                                   !.announcedTopic = PostTopicArg(r.topic)],
                   EmptyMsg, NoErr)
       ELSE Return(tracked, EmptyMsg, "post meeting failed")

\* runStartCommand, postMeeting and trackMeetingStart: the frame returned;
\* posted is whether postMeeting succeeded.
PostReturn(r, posted) ==
    IF posted
    THEN Return([r EXCEPT !.postCalls = @ + 1,
                          !.announcements = @ + 1,
                          !.announcedID = r.meetingID,
                          !.announcedTopic = PostTopicArg(r.topic),
                          !.telemetry = Append(@, telemetryStartSourceCommand)],
                EmptyMsg, NoErr)
    ELSE Return([r EXCEPT !.postCalls = @ + 1], EmptyMsg, "post meeting failed")

\* Post & track.
StartPost(t) ==
    /\ th[t].pc = "start_post"
    /\ LET r == th[t]
           branch == PostBranch(r.meetingID, r.createErr)
       IN
       \E posted \in BOOLEAN :
          CASE branch = "silent" ->
                 /\ th' = [th EXCEPT ![t] = Return(r, EmptyMsg, NoErr)]
                 /\ UNCHANGED live
            [] branch = "error" ->
                 /\ th' = [th EXCEPT ![t] =
                              Return(r, EmptyMsg, "error while create new meeting")]
                 /\ UNCHANGED live
            [] OTHER ->
                 IF posted
                 THEN /\ th' = [Overtaken(t, r.channel) EXCEPT ![t] =
                                  PostReturn([r EXCEPT !.dupPost = live[r.channel] > 0], TRUE)]
                      /\ live' = [live EXCEPT ![r.channel] = @ + 1]
                 ELSE /\ th' = [th EXCEPT ![t] = PostReturn(r, FALSE)]
                      /\ UNCHANGED live
    /\ UNCHANGED <<config, pref, pending, superToken, linked, invoked>>

\* The oldest live announcement of channel c leaves the lookback window.
Expire(c) ==
    /\ live[c] > 0
    /\ live' = [live EXCEPT ![c] = @ - 1]
    /\ UNCHANGED <<config, pref, pending, superToken, linked, th, invoked>>

\* ------------------------------------------------ connect and disconnect
\* The gate without the admin requirement of account-level deployments.
canConnect_NoAdminCheck(u) == OAuthEnabled

\* canConnect
canConnect(u) ==
    OAuthEnabled /\ (~config.AccountLevelApp \/ IsSystemAdmin(u))

\* The OAuth prompt formatted with the deployment's site URL.
oauthMsg == Msg("OAuthPrompt", "siteURL")

\* The denial messages of runConnectCommand and runDisconnectCommand are
\* written below without the backquotes the source puts around the action.
\* runConnectCommand: whether a credential already exists for the caller.
AlreadyConnected(u) ==
    IF config.AccountLevelApp THEN superToken ELSE u \in linked

\* The flag of the recorded connection following the deployment mode.
ConnectPendingEntry_PerMode(r) == PendingEntry(r.channel, config.AccountLevelApp)

\* runConnectCommand, the pending connection it records (the flag is true in
\* the account-level and in the user-level branch).
ConnectPendingEntry(r) == PendingEntry(r.channel, TRUE)

\* A failed storeOAuthUserState in runConnectCommand only logged.
ConnectStoreReturn_BestEffort(r, stored) ==
    IF stored
    THEN Return([r EXCEPT !.store = "ok", !.wrote = ConnectPendingEntry(r),
                          !.pendingWrites = @ + 1], oauthMsg, NoErr)
    ELSE Return([r EXCEPT !.store = "err", !.warnStore = @ + 1], oauthMsg, NoErr)

\* runConnectCommand after storeOAuthUserState: the frame returned.
ConnectStoreReturn(r, stored) ==
    IF stored
    THEN Return([r EXCEPT !.store = "ok", !.wrote = ConnectPendingEntry(r),
                          !.pendingWrites = @ + 1], oauthMsg, NoErr)
    ELSE Return([r EXCEPT !.store = "err"], EmptyMsg, "cannot store state")

\* runConnectCommand
RunConnectCommand(t) ==
    /\ th[t].pc = actionConnect
    /\ LET r == th[t] IN
       \E stored \in BOOLEAN :
          IF ~canConnect(r.user)
          THEN /\ th' = [th EXCEPT ![t] =
                           Return(r, Msg("Unknown action connect", ""), NoErr)]
               /\ UNCHANGED pending
          ELSE IF AlreadyConnected(r.user)
          THEN /\ th' = [th EXCEPT ![t] =
                           Return([r EXCEPT !.prior = pending[r.user], !.credFound = "yes"],
                                  Msg(alreadyConnectedText, ""), NoErr)]
               /\ UNCHANGED pending
          ELSE /\ th' = [th EXCEPT ![t] =
                           [ConnectStoreReturn(r, stored) EXCEPT
                               !.prior = pending[r.user], !.credFound = "no"]]
               /\ pending' = IF stored
                             THEN storeOAuthUserState(r.user, ConnectPendingEntry(r))
                             ELSE pending
    /\ UNCHANGED <<config, pref, superToken, linked, live, invoked>>

\* runDisconnectCommand; removed is the outcome of the store's removal.
RunDisconnectCommand(t) ==
    /\ th[t].pc = actionDisconnect
    /\ LET r == th[t] IN
       \E removed \in BOOLEAN :
          IF ~canConnect(r.user)
          THEN /\ th' = [th EXCEPT ![t] =
                           Return(r, Msg("Unknown action disconnect", ""), NoErr)]
               /\ UNCHANGED <<superToken, linked>>
          ELSE IF config.AccountLevelApp
          THEN IF removed
               THEN /\ th' = [th EXCEPT ![t] =
                                Return([r EXCEPT !.removals = @ + 1],
                                       Msg("Successfully disconnected from Zoom.", ""), NoErr)]
                    /\ superToken' = FALSE
                    /\ UNCHANGED linked
               ELSE /\ th' = [th EXCEPT ![t] =
                                Return(r, Msg("Error disconnecting, ", "err"), NoErr)]
                    /\ UNCHANGED <<superToken, linked>>
          ELSE IF removed /\ r.user \in linked
               THEN /\ th' = [th EXCEPT ![t] =
                                Return([r EXCEPT !.removals = @ + 1,
                                                 !.disconnectTracks = @ + 1],
                                       Msg("User disconnected from Zoom.", ""), NoErr)]
                    /\ linked' = linked \ {r.user}
                    /\ UNCHANGED superToken
               ELSE /\ th' = [th EXCEPT ![t] =
                                Return(r, Msg("Could not disconnect OAuth from zoom, ", "err"),
                                       NoErr)]
                    /\ UNCHANGED <<superToken, linked>>
    /\ UNCHANGED <<config, pref, pending, live, invoked>>

\* The OAuth redirect completes for user u: the pending entry is read and
\* deleted, and the credential of the deployment's mode is stored.
OAuthComplete(u) ==
    /\ OAuthEnabled
    /\ pending[u].set
    /\ pending' = [pending EXCEPT ![u] = NoPending]
    /\ IF config.AccountLevelApp
       THEN superToken' = TRUE /\ UNCHANGED linked
       ELSE linked' = linked \cup {u} /\ UNCHANGED superToken
    /\ UNCHANGED <<config, pref, live, th, invoked>>

\* ------------------------------------------------------ help and setting
\* runHelpCommand
RunHelpCommand(t) ==
    /\ th[t].pc = actionHelp
    /\ th' = [th EXCEPT ![t] =
                Return(th[t], Msg("help", IF config.EnableOAuth THEN "oauth" ELSE ""), NoErr)]
    /\ UNCHANGED <<config, pref, pending, superToken, linked, live, invoked>>

\* runPMISettingCommand writing whatever value it is given.
ValidPMISetting_Any(usePMIValue) == TRUE

\* runPMISettingCommand: whether the value is one the command writes.
ValidPMISetting(usePMIValue) ==
    usePMIValue \in {trueString, falseString, zoomPMISettingValueAsk}

\* runSettingCommand with runPMISettingCommand; updated is the outcome of
\* UpdatePreferencesForUser.
RunSettingCommand(t) ==
    /\ th[t].pc = actionSetting
    /\ LET r == th[t]
           settingArgs == SliceFrom(Fields(r.command), 2)
           settingAction == IF Len(settingArgs) > 0 THEN settingArgs[1] ELSE ""
       IN
       \E updated \in BOOLEAN :
          IF settingAction = "use_pmi"
          THEN IF Len(settingArgs) > 1
               THEN IF ValidPMISetting(settingArgs[2])
                    THEN IF updated
                         THEN /\ th' = [th EXCEPT ![t] =
                                   Return([r EXCEPT !.prefWrites = @ + 1,
                                                    !.prefTried = Append(@, settingArgs[2])],
                                          Msg("Update successfully, use_pmi: %v",
                                              settingArgs[2]), NoErr)]
                              /\ pref' = [pref EXCEPT ![r.user] = settingArgs[2]]
                         ELSE /\ th' = [th EXCEPT ![t] =
                                   Return([r EXCEPT !.prefTried = Append(@, settingArgs[2])],
                                          Msg(preferenceUpdateError, ""), NoErr)]
                              /\ UNCHANGED pref
                    ELSE /\ th' = [th EXCEPT ![t] =
                              Return(r, Msg("Unknown setting option %v", settingArgs[2]),
                                     NoErr)]
                         /\ UNCHANGED pref
               ELSE /\ th' = [th EXCEPT ![t] =
                         Return(r, Msg("Set PMI option to 'true'|'false'|'ask'", ""),
                                NoErr)]
                    /\ UNCHANGED pref
          ELSE IF settingAction = ""
          THEN /\ th' = [th EXCEPT ![t] = Return(r, Msg("setting help", ""), NoErr)]
               /\ UNCHANGED pref
          ELSE /\ th' = [th EXCEPT ![t] =
                    Return(r, Msg("Unknown Action %v", settingAction), NoErr)]
               /\ UNCHANGED pref
    /\ UNCHANGED <<config, pending, superToken, linked, live, invoked>>

\* ------------------------------------------------------- specifications
\* Command invocations handled one at a time.
Next ==
    \/ \E t \in SeqThreads : ExecuteCommand(t, Commands, Channels)
    \/ \E t \in SeqThreads : StartCheck(t)
    \/ \E t \in SeqThreads : StartAuth(t)
    \/ \E t \in SeqThreads : StartDecide(t)
    \/ \E t \in SeqThreads : StartPost(t)
    \/ \E t \in SeqThreads : RunConnectCommand(t)
    \/ \E t \in SeqThreads : RunDisconnectCommand(t)
    \/ \E t \in SeqThreads : RunHelpCommand(t)
    \/ \E t \in SeqThreads : RunSettingCommand(t)
    \/ \E t \in SeqThreads : Respond(t)
    \/ \E u \in Users : OAuthComplete(u)
    \/ \E c \in Channels : Expire(c)

Spec == Init /\ [][Next]_vars

\* start invocations for one channel running concurrently on separate request
\* threads.
RaceCommands == { <<"/zoom", " ", "start">> }
RaceChannels == {"c1"}
NextConc ==
    \/ \E t \in Threads : ExecuteCommand(t, RaceCommands, RaceChannels)
    \/ \E t \in Threads : StartCheck(t)
    \/ \E t \in Threads : StartAuth(t)
    \/ \E t \in Threads : StartDecide(t)
    \/ \E t \in Threads : StartPost(t)
    \/ \E t \in Threads : Respond(t)
    \/ \E u \in Users : OAuthComplete(u)
    \/ \E c \in Channels : Expire(c)

ConcSpec == Init /\ [][NextConc]_vars

\* setting and start invocations running concurrently on separate request
\* threads, for users who have no stored preference at the outset.
PrefCommands ==
    { <<"/zoom", " ", "start">>,
      <<"/zoom", " ", "setting", " ", "use_pmi", " ", "true">>,
      <<"/zoom", " ", "setting", " ", "use_pmi", " ", "false">>,
      <<"/zoom", " ", "setting", " ", "use_pmi", " ", "ask">> }

InitPref ==
    /\ config \in [EnableOAuth : BOOLEAN, AccountLevelApp : BOOLEAN]
    /\ pref = [u \in Users |-> ""]
    /\ pending = [u \in Users |-> NoPending]
    /\ superToken = FALSE
    /\ linked = {}
    /\ live = [c \in Channels |-> 0]
    /\ th = [t \in Threads |-> IdleFrame]
    /\ invoked = 0

NextPref ==
    \/ \E t \in Threads : ExecuteCommand(t, PrefCommands, RaceChannels)
    \/ \E t \in Threads : StartCheck(t)
    \/ \E t \in Threads : StartAuth(t)
    \/ \E t \in Threads : StartDecide(t)
    \/ \E t \in Threads : StartPost(t)
    \/ \E t \in Threads : RunSettingCommand(t)
    \/ \E t \in Threads : Respond(t)
    \/ \E u \in Users : OAuthComplete(u)
    \/ \E c \in Channels : Expire(c)

PrefSpec == InitPref /\ [][NextPref]_vars

\* ------------------------------------------------- the parser on its own
\* Pieces of a raw command string: words and the whitespace character.
Words == {"/zoom", "start", "sync"}
Pieces == Words \cup {" "}

\* Raw command strings of at most MaxCommandLen pieces. Two words are always
\* separated by whitespace (adjacent words would be one word).
CommandStrings ==
    { raw \in UNION { [1..n -> Pieces] : n \in 0..MaxCommandLen } :
        \A i \in 1..(Len(raw) - 1) : raw[i] = " " \/ raw[i + 1] = " " }

\* parseCommand is about to be called on some raw command string.
InitParse ==
    /\ config = [EnableOAuth |-> FALSE, AccountLevelApp |-> FALSE]
    /\ pref = [u \in Users |-> ""]
    /\ pending = [u \in Users |-> NoPending]
    /\ superToken = FALSE
    /\ linked = {}
    /\ live = [c \in Channels |-> 0]
    /\ invoked = 0
    /\ \E raw \in CommandStrings :
          th = [t \in Threads |->
                  IF t = 1 THEN [Frame("member", "c1", raw) EXCEPT !.pc = "called"]
                  ELSE IdleFrame]

\* cmd, action, topic := parseCommand(rawCommand)
ParseStep(t) ==
    /\ th[t].pc = "called"
    /\ LET p == parseCommand(th[t].command) IN
       th' = [th EXCEPT ![t] =
                [@ EXCEPT !.pc = IF p.panic THEN "panic" ELSE "parsed",
                          !.cmd = p.cmd, !.action = p.action, !.topic = p.topic]]
    /\ UNCHANGED <<config, pref, pending, superToken, linked, live, invoked>>

NextParse == \E t \in Threads : ParseStep(t)

ParseSpec == InitParse /\ [][NextParse]_vars

\* ------------------------------------------------------------- properties
\* runStartCommand has returned on thread t (its result is in the frame).
StartReturned(t) ==
    th[t].action = actionStart /\ th[t].pc \in {"respond", "done"}

\* The start invocation of thread t passed the membership, recent-meeting
\* and auth guards.
PassedGuards(t) ==
    /\ StartReturned(t)
    /\ th[t].member = "ok" /\ th[t].found = "no" /\ th[t].auth = "ok"

\* Empty message and nil error.
Quiet(r) == IsEmptyMsg(r.msg) /\ r.err = NoErr

\* The outcomes of a start invocation, by what it did and what it returned.
OutReuse(r) ==
    /\ r.confirmPosts = 1 /\ r.askPrompts = 0 /\ r.createCalls = 0
    /\ r.announcements = 0 /\ r.store = "na" /\ Quiet(r)
OutAsk(r) ==
    /\ r.askPrompts = 1 /\ r.confirmPosts = 0 /\ r.createCalls = 0
    /\ r.announcements = 0 /\ r.store = "na" /\ Quiet(r)
OutCreateWithPMI(r) ==
    /\ r.announcements = 1 /\ r.createCalls = 0 /\ r.askPrompts = 0
    /\ r.confirmPosts = 0 /\ r.store = "na" /\ Quiet(r)
OutCreateWithoutPMI(r) ==
    /\ r.announcements = 1 /\ r.createCalls = 1 /\ r.askPrompts = 0
    /\ r.confirmPosts = 0 /\ r.store = "na" /\ Quiet(r)
\* The authentication-required branch: the operation is deferred until the
\* user has connected.
OutDeferred(r) ==
    /\ r.store # "na" /\ r.announcements = 0 /\ r.createCalls = 0
    /\ r.askPrompts = 0 /\ r.confirmPosts = 0
    /\ r.msg = AuthRequired.Message /\ r.err = AuthRequired.Err
OutError(r) ==
    /\ r.store = "na" /\ r.announcements = 0 /\ r.askPrompts = 0
    /\ r.confirmPosts = 0 /\ r.createCalls <= 1 /\ ~Quiet(r)

OutcomesOf(r) ==
    { o \in {"reuse", "ask", "pmi", "nopmi", "deferred", "error"} :
        CASE o = "reuse" -> OutReuse(r)
          [] o = "ask" -> OutAsk(r)
          [] o = "pmi" -> OutCreateWithPMI(r)
          [] o = "nopmi" -> OutCreateWithoutPMI(r)
          [] o = "deferred" -> OutDeferred(r)
          [] OTHER -> OutError(r) }

\* C1: every start invocation that has returned ended in exactly one of the
\* outcomes reuse prompt, ask prompt, create-with-PMI, create-without-PMI,
\* error, deferred no-op; it made at most one provider meeting-creation call
\* and at most one announcement post, and never both showed the ask prompt
\* and posted an announcement.
C1_ExactlyOneOutcome ==
    \A t \in Threads :
        StartReturned(t) =>
            /\ Cardinality(OutcomesOf(th[t])) = 1
            /\ th[t].createCalls <= 1
            /\ th[t].announcements <= 1
            /\ ~(th[t].askPrompts > 0 /\ th[t].announcements > 0)

\* C1 witness: a start that minted a fresh meeting and announced it.
C1_Witness ==
    \E t \in Threads :
        StartReturned(t) /\ OutcomesOf(th[t]) = {"nopmi"}

\* C2: a start by a channel member for which the detector reported a recent
\* meeting creates no meeting, returns an empty message and a nil error, and
\* does nothing but post exactly one confirmation: no pending connection, no
\* ask prompt, no announcement, no telemetry event.
C2_ReuseOnly ==
    \A t \in Threads :
        (StartReturned(t) /\ th[t].member = "ok" /\ th[t].found = "yes") =>
            /\ th[t].confirmPosts = 1
            /\ Quiet(th[t])
            /\ th[t].createCalls = 0 /\ th[t].meetingID = NoMeeting
            /\ th[t].store = "na" /\ th[t].pendingWrites = 0
            /\ th[t].askPrompts = 0
            /\ th[t].announcements = 0
            /\ th[t].telemetry = << >>

\* C2 witness: the reuse prompt shown to a user whose own preference would
\* have led to the ask prompt.
C2_Witness ==
    \E t \in Threads :
        /\ StartReturned(t) /\ th[t].member = "ok" /\ th[t].found = "yes"
        /\ th[t].confirmPosts = 1
        /\ pref[th[t].user] = ""
        /\ live[th[t].channel] = 1

\* C3 as stated: every channel has at most one meeting announcement inside
\* the recent-meeting lookback, whatever the interleaving of start invocations.
C3_AtMostOneLive ==
    \A c \in Channels : live[c] <= 1

\* C3 amended: an announcement is posted in a channel that already holds a
\* live announcement only by an invocation whose recent-meeting check ran
\* before that announcement was posted, that is, by an overlapping invocation.
C3_DuplicateOnlyWhenRaced ==
    \A t \in Threads : th[t].dupPost => th[t].raced

\* C3 witness: two overlapping invocations both announced in one channel.
C3_Witness ==
    \E t \in Threads :
        /\ th[t].dupPost /\ th[t].raced
        /\ live[th[t].channel] = 2

\* C4: past the guards with the preference "true", the meeting ID decided and
\* announced is the identity's personal meeting ID, with no provider
\* meeting-creation call and no ask prompt.
C4_PMIUsed ==
    \A t \in Threads :
        (PassedGuards(t) /\ th[t].prefRead = trueString) =>
            /\ th[t].meetingID = Pmi(th[t].user)
            /\ th[t].createCalls = 0
            /\ th[t].askPrompts = 0
            /\ th[t].announcements = 1 => th[t].announcedID = Pmi(th[t].user)

\* C4 witness: a PMI meeting announced.
C4_Witness ==
    \E t \in Threads :
        /\ PassedGuards(t) /\ th[t].prefRead = trueString
        /\ th[t].announcements = 1 /\ th[t].announcedID = Pmi(th[t].user)

\* C5: past the guards with the preference "false" or any stored value other
\* than unset, "ask" and "true", exactly one provider meeting-creation call is
\* made, with the constant default topic whatever topic the command carried;
\* if the call fails, start returns a non-nil error, posts no announcement
\* and emits no telemetry event.
C5_CreateWithDefaultTopic ==
    \A t \in Threads :
        (PassedGuards(t)
            /\ th[t].prefRead \notin {"err", "", zoomPMISettingValueAsk, trueString}) =>
            /\ th[t].createCalls = 1
            /\ th[t].createTopic = defaultMeetingTopic
            /\ th[t].createErr =>
                  /\ th[t].err # NoErr
                  /\ th[t].announcements = 0
                  /\ th[t].telemetry = << >>

\* C5 witness: the preference "false", a topic given in the command, and the
\* provider call failing.
C5_Witness ==
    \E t \in Threads :
        /\ PassedGuards(t) /\ th[t].prefRead = falseString
        /\ th[t].topic = <<"team", " ", "sync">>
        /\ th[t].createCalls = 1 /\ th[t].createErr /\ th[t].err # NoErr

\* C6: past the guards with the preference unset, "ask" or unreadable, start
\* decides no meeting, makes no provider call, posts no announcement, emits
\* no telemetry event, shows exactly one ask prompt and returns an empty
\* message with a nil error.
C6_AskPrompt ==
    \A t \in Threads :
        (PassedGuards(t) /\ th[t].prefRead \in {"err", "", zoomPMISettingValueAsk}) =>
            /\ th[t].meetingID = NoMeeting
            /\ th[t].createCalls = 0
            /\ th[t].announcements = 0
            /\ th[t].telemetry = << >>
            /\ th[t].askPrompts = 1
            /\ Quiet(th[t])

\* C6 witness: the ask prompt shown after the preference lookup failed for a
\* user whose stored value is a concrete one.
C6_Witness ==
    \E t \in Threads :
        /\ PassedGuards(t) /\ th[t].prefRead = "err"
        /\ pref[th[t].user] \notin {"", zoomPMISettingValueAsk}
        /\ th[t].askPrompts = 1

\* C7: when the provider identity cannot be resolved past the membership and
\* recent-meeting guards, start attempts to record the pending connection
\* (user, channel, false), returns the authentication-required message and
\* error, creates and announces no meeting and shows no ask prompt; a failed
\* recording is only logged and the message and error are those returned
\* when it succeeds.
C7_AuthRequired ==
    \A t \in Threads :
        (StartReturned(t) /\ th[t].member = "ok" /\ th[t].found = "no"
            /\ th[t].auth = "fail") =>
            /\ th[t].store \in {"ok", "err"}
            /\ th[t].store = "ok" =>
                  th[t].wrote = [channel |-> th[t].channel, flag |-> FALSE, set |-> TRUE]
            /\ th[t].store = "err" =>
                  th[t].wrote = NoPending /\ th[t].warnStore = 1
            /\ th[t].msg = AuthRequired.Message
            /\ th[t].err = AuthRequired.Err
            /\ th[t].createCalls = 0 /\ th[t].meetingID = NoMeeting
            /\ th[t].announcements = 0
            /\ th[t].askPrompts = 0

\* C7 witness: the recording failed and the authentication-required message
\* was still delivered.
C7_Witness ==
    \E t \in Threads :
        /\ th[t].action = actionStart /\ th[t].pc = "done"
        /\ th[t].auth = "fail" /\ th[t].store = "err"
        /\ th[t].warnStore = 1
        /\ th[t].ephemerals = <<[to |-> th[t].user, text |-> AuthRequired.Message]>>

\* C8: a start whose provider meeting-creation call failed ends with the
\* failure returned as an error, logged, and a non-empty ephemeral message
\* delivered to the invoking user.
C8_CreateFailureShown ==
    \A t \in Threads :
        (th[t].action = actionStart /\ th[t].pc = "done" /\ th[t].createErr) =>
            /\ th[t].err # NoErr
            /\ th[t].warnExec = 1
            /\ Len(th[t].ephemerals) = 1
            /\ ~IsEmptyMsg(th[t].ephemerals[1].text)

\* An operation that recorded, or failed to record, a pending connection has
\* returned on thread t.
StoreAttempted(t) ==
    /\ th[t].pc \in {"respond", "done"}
    /\ th[t].action \in {actionStart, actionConnect}
    /\ th[t].store # "na"

\* C9 as stated: in start and in connect alike, a failed pending-connection
\* write leaves the message and the nil/unchanged error of a successful one.
C9_BestEffortEverywhere ==
    \A t \in Threads :
        (StoreAttempted(t) /\ th[t].store = "err") =>
            IF th[t].action = actionStart
            THEN th[t].msg = AuthRequired.Message /\ th[t].err = AuthRequired.Err
            ELSE th[t].msg = oauthMsg /\ th[t].err = NoErr

\* C9 amended: only start records the pending connection best-effort (a
\* failed write is logged and the result is that of a successful one);
\* connect returns the OAuth prompt when the write succeeds and, when it
\* fails, an empty message and the error "cannot store state".
C9_BestEffortInStartOnly ==
    \A t \in Threads :
        StoreAttempted(t) =>
            IF th[t].action = actionStart
            THEN /\ th[t].msg = AuthRequired.Message /\ th[t].err = AuthRequired.Err
                 /\ th[t].store = "err" => th[t].warnStore = 1
            ELSE IF th[t].store = "ok"
            THEN th[t].msg = oauthMsg /\ th[t].err = NoErr
            ELSE /\ IsEmptyMsg(th[t].msg) /\ th[t].err = "cannot store state"
                 /\ th[t].wrote = NoPending
                 /\ th[t].pc = "done" =>
                       th[t].warnExec = 1 /\ th[t].ephemerals = << >>

\* C9 witness: a connect whose pending-connection write failed has ended with
\* nothing shown to the user.
C9_Witness ==
    \E t \in Threads :
        /\ th[t].action = actionConnect /\ th[t].pc = "done"
        /\ th[t].store = "err" /\ th[t].err # NoErr
        /\ th[t].ephemerals = << >>

\* The permission gate as the claim states it.
GatePermits(u) ==
    config.EnableOAuth /\ (~config.AccountLevelApp \/ IsSystemAdmin(u))

\* C10: connect and disconnect go past the permission gate only if OAuth is
\* enabled and the deployment is not account-level or the user is an
\* elevated admin; a denied operation returns the "Unknown action" message
\* with a nil error, records no pending connection, removes no shared token
\* or linked identity and emits no tracking event.
C10_PermissionGate ==
    \A t \in Threads :
        (th[t].pc \in {"respond", "done"}
            /\ th[t].action \in {actionConnect, actionDisconnect}) =>
            LET denied == th[t].msg.text \in {"Unknown action connect",
                                              "Unknown action disconnect"}
            IN /\ denied <=> ~GatePermits(th[t].user)
               /\ denied =>
                     /\ th[t].err = NoErr
                     /\ th[t].store = "na" /\ th[t].pendingWrites = 0
                     /\ th[t].wrote = NoPending
                     /\ th[t].removals = 0
                     /\ th[t].disconnectTracks = 0
                     /\ th[t].telemetry = << >>

\* C10 witness: a non-admin user denied disconnect on an account-level,
\* OAuth-enabled deployment.
C10_Witness ==
    \E t \in Threads :
        /\ th[t].pc = "done" /\ th[t].action = actionDisconnect
        /\ config.EnableOAuth /\ config.AccountLevelApp
        /\ ~IsSystemAdmin(th[t].user)
        /\ th[t].msg.text = "Unknown action disconnect"

\* The arguments of a setting command: the tokens after "/zoom setting".
SettingArgsOf(r) == SliceFrom(Fields(r.command), 2)

\* C11: setting use_pmi <value> with a value outside {true, false, ask}
\* returns "Unknown setting option" and writes nothing; with a value inside it
\* makes exactly one write, of that value for the invoking user, and returns
\* the success message carrying the value when the write succeeds and the
\* fixed preference-update error string with a nil error when it fails; no
\* other setting sub-action writes, and no command ever stores a value
\* outside {unset, "true", "false", "ask"}.
C11_SettingWrites ==
    /\ \A t \in Threads :
          (th[t].action = actionSetting /\ th[t].pc \in {"respond", "done"}) =>
             LET r == th[t]
                 args == SettingArgsOf(r)
                 usePMI == Len(args) > 1 /\ args[1] = "use_pmi"
             IN /\ r.err = NoErr
                /\ (usePMI /\ args[2] \in {"true", "false", "ask"}) =>
                      /\ r.prefTried = <<args[2]>>
                      /\ \/ /\ r.prefWrites = 1
                            /\ r.msg = Msg("Update successfully, use_pmi: %v", args[2])
                            /\ pref[r.user] = args[2]
                         \/ /\ r.prefWrites = 0
                            /\ r.msg = Msg("Cannot update preference in zoom setting", "")
                /\ (usePMI /\ args[2] \notin {"true", "false", "ask"}) =>
                      /\ r.msg = Msg("Unknown setting option %v", args[2])
                      /\ r.prefTried = << >> /\ r.prefWrites = 0
                /\ ~usePMI => r.prefTried = << >> /\ r.prefWrites = 0
    /\ \A t \in Threads :
          th[t].action # actionSetting => th[t].prefTried = << >>
    /\ \A u \in Users :
          pref[u] \in {"", "true", "false", "ask"} \/ pref[u] \in {p[u] : p \in InitPrefs}

\* C11 witness: use_pmi true written for the invoking user.
C11_Witness ==
    \E t \in Threads :
        /\ th[t].action = actionSetting /\ th[t].pc = "done"
        /\ SettingArgsOf(th[t]) = <<"use_pmi", "true">>
        /\ th[t].prefWrites = 1
        /\ pref[th[t].user] = "true"
        /\ th[t].ephemerals =
              <<[to |-> th[t].user, text |-> Msg("Update successfully, use_pmi: %v", "true")]>>

\* The pending-connection store keeps the latest write of each user: while an
\* entry written by the invocation on thread t is pending, it holds that
\* invocation's channel and flag.
LatestWriteStored ==
    \A t \in Threads :
        (th[t].pc \in {"respond", "done"} /\ th[t].store = "ok"
            /\ pending[th[t].user].set) =>
            /\ pending[th[t].user].channel = th[t].channel
            /\ pending[th[t].user].flag = th[t].wrote.flag
            /\ th[t].action = actionStart => ~pending[th[t].user].flag

\* A step of the OAuth-completion path: no command is at work and no
\* announcement ages.
CompletionStep == th' = th /\ invoked' = invoked /\ live' = live

\* C12: the store holds at most one pending connection per user (it is keyed
\* by the user), a later connect or unauthenticated start by the same user
\* overwrites the earlier entry with its own channel and flag, and an entry
\* read by the OAuth-completion path is gone, so that a second read with no
\* write in between finds nothing.
C12_PendingProtocol ==
    /\ [](LatestWriteStored /\ pending \in [Users -> [channel : Channels \cup {""},
                                                     flag : BOOLEAN, set : BOOLEAN]])
    /\ [][CompletionStep =>
              \E u \in Users : /\ pending[u].set
                               /\ pending' = [pending EXCEPT ![u] = NoPending]]_vars

\* C12 witness: an unauthenticated start in another channel has overwritten
\* the entry of the user's earlier connect.
C12_Witness ==
    \E t \in Threads :
        /\ th[t].action = actionStart /\ th[t].pc = "done" /\ th[t].store = "ok"
        /\ th[t].prior.set /\ th[t].prior.flag
        /\ th[t].prior.channel # th[t].channel
        /\ pending[th[t].user] = [channel |-> th[t].channel, flag |-> FALSE, set |-> TRUE]

\* C13: a start that decided a concrete meeting ID calls postMeeting exactly
\* once; when the post succeeds it has posted one announcement, emitted one
\* start event tagged "command" and returns an empty message and a nil
\* error; when the post fails it returns the failure as an error, emits no
\* event and leaves the meeting as decided. No invocation emits a start
\* event without having posted an announcement.
C13_PostAndTrack ==
    /\ \A t \in Threads :
          (StartReturned(t) /\ th[t].meetingID # NoMeeting /\ ~th[t].createErr) =>
             /\ th[t].postCalls = 1
             /\ \/ /\ th[t].announcements = 1
                   /\ th[t].announcedID = th[t].meetingID
                   /\ th[t].telemetry = <<"command">>
                   /\ Quiet(th[t])
                \/ /\ th[t].announcements = 0
                   /\ th[t].telemetry = << >>
                   /\ IsEmptyMsg(th[t].msg) /\ th[t].err = "post meeting failed"
                   /\ th[t].createCalls \in {0, 1}
    /\ \A t \in Threads :
          /\ th[t].telemetry # << >> => th[t].announcements = 1
          /\ Len(th[t].telemetry) <= 1
          /\ th[t].postCalls <= 1
          /\ (th[t].meetingID = NoMeeting \/ th[t].createErr) => th[t].postCalls = 0

\* C13 witness: a freshly created meeting whose announcement failed to post.
C13_Witness ==
    \E t \in Threads :
        /\ th[t].action = actionStart /\ th[t].pc = "done"
        /\ th[t].createCalls = 1 /\ th[t].meetingID # NoMeeting
        /\ th[t].postCalls = 1 /\ th[t].announcements = 0
        /\ th[t].err # NoErr /\ th[t].telemetry = << >>

\* Positions of the tokens of a raw command string: the pieces that are not
\* whitespace.
TokenPositions(raw) == { i \in DOMAIN raw : raw[i] # " " }

\* The k-th whitespace-delimited token of raw (1-based).
NthToken(raw, k) ==
    raw[CHOOSE i \in TokenPositions(raw) :
            Cardinality({ j \in TokenPositions(raw) : j <= i }) = k]

\* C14: for a command string with at least one token the parser returns the
\* first token as cmd, the second token (or the empty string) as action,
\* and a topic that is non-empty exactly when action is "start" and there
\* are at least three tokens; the topic is then the third and later tokens
\* in order with exactly one space between neighbours.
C14_ParserContract ==
    \A t \in Threads :
        LET raw == th[t].command
            n == Cardinality(TokenPositions(raw))
        IN (th[t].pc \in {"parsed", "panic"} /\ n >= 1) =>
              /\ th[t].pc = "parsed"
              /\ th[t].cmd = NthToken(raw, 1)
              /\ th[t].action = IF n >= 2 THEN NthToken(raw, 2) ELSE ""
              /\ th[t].topic # << >> <=> (th[t].action = "start" /\ n >= 3)
              /\ th[t].topic # << >> =>
                    /\ Len(th[t].topic) = 2 * (n - 2) - 1
                    /\ \A k \in 1..(n - 2) :
                          th[t].topic[2 * k - 1] = NthToken(raw, k + 2)
                    /\ \A k \in 1..(n - 3) : th[t].topic[2 * k] = " "

\* C14 witness: a start command whose two topic words are separated by a
\* run of whitespace in the input and by one space in the topic.
C14_Witness ==
    \E t \in Threads :
        /\ th[t].pc = "parsed" /\ th[t].action = "start"
        /\ Len(th[t].topic) = 3
        /\ \E i \in 1..(Len(th[t].command) - 1) :
              /\ th[t].command[i] = " " /\ th[t].command[i + 1] = " "
              /\ \E j \in 1..(i - 1) : th[t].command[j] = "start"

\* C15: once ExecuteCommand has finished, the user has received exactly one
\* ephemeral post, addressed to the invoking user and carrying the returned
\* message, when that message is non-empty, and none when it is empty; no
\* response is posted publicly; the warning log has one entry exactly when
\* the returned error is non-nil, and the delivery does not depend on the
\* error. Before ExecuteCommand finishes nothing has been delivered.
C15_ResponseChannel ==
    \A t \in Threads :
        /\ th[t].publicPosts = 0
        /\ th[t].pc = "done" =>
              /\ th[t].ephemerals = IF IsEmptyMsg(th[t].msg) THEN << >>
                                    ELSE <<[to |-> th[t].user, text |-> th[t].msg]>>
              /\ th[t].warnExec = IF th[t].err # NoErr THEN 1 ELSE 0
        /\ th[t].pc # "done" => (th[t].ephemerals = << >> /\ th[t].warnExec = 0)

\* C15 witness: a finished invocation that returned both a message and an
\* error: the error was logged once and the message was delivered to the
\* invoking user as the only post.
C15_Witness ==
    \E t \in Threads :
        /\ th[t].pc = "done" /\ th[t].err # NoErr /\ th[t].warnExec = 1
        /\ ~IsEmptyMsg(th[t].msg)
        /\ th[t].ephemerals = <<[to |-> th[t].user, text |-> th[t].msg]>>

\* The invocation of frame r has touched nothing outside its own response.
NoSideEffect(r) ==
    /\ r.confirmPosts = 0 /\ r.askPrompts = 0 /\ r.createCalls = 0
    /\ r.postCalls = 0 /\ r.announcements = 0 /\ r.telemetry = << >>
    /\ r.pendingWrites = 0 /\ r.removals = 0 /\ r.disconnectTracks = 0
    /\ r.prefWrites = 0 /\ r.prefTried = << >> /\ r.warnStore = 0

\* The dispatcher has run on thread t on a command string with a token.
Dispatched(t) ==
    /\ th[t].pc \notin {"idle", "panic", "called", "parsed"}
    /\ TokenPositions(th[t].command) # {}

\* The second token of the command of thread t, "" when there is none.
ActionToken(t) ==
    IF Cardinality(TokenPositions(th[t].command)) >= 2
    THEN NthToken(th[t].command, 2) ELSE ""

\* The dispatcher answered with this text about this argument, a nil error
\* and no side effect, routing to no operation.
Answered(t, text, arg) ==
    /\ th[t].pc \in {"respond", "done"}
    /\ th[t].msg = Msg(text, arg) /\ th[t].err = NoErr
    /\ th[t].action = "" /\ NoSideEffect(th[t])

\* C16 as stated: whenever the user lookup fails, the response is the
\* could-not-retrieve-user message with a nil error, whatever the command
\* string is.
C16_UserLookupFirst ==
    \A t \in Threads :
        (Dispatched(t) /\ ~th[t].userOK) =>
            Answered(t, "We could not retrieve user (userId: %v)", th[t].user)

\* C16 amended: the dispatcher checks the command name, then the action,
\* then resolves the user, then routes. A wrong command name yields the
\* not-/zoom message and a missing action the specify-an-action prompt
\* whether or not the user can be resolved; the could-not-retrieve-user
\* message is returned only for a /zoom command with an action; an action
\* outside the five names yields "Unknown action"; each of the five names
\* is routed to its operation. None of the four answers has a side effect
\* or a non-nil error, and an empty action never yields the help text.
C16_GuardOrder ==
    \A t \in Threads :
        Dispatched(t) =>
            LET cmd == NthToken(th[t].command, 1)
                action == ActionToken(t)
            IN IF cmd # "/zoom"
               THEN Answered(t, "Command '%s' is not /zoom. Please try again.", cmd)
               ELSE IF action = ""
               THEN Answered(t, "Please specify an action for /zoom command.", "")
               ELSE IF ~th[t].userOK
               THEN Answered(t, "We could not retrieve user (userId: %v)", th[t].user)
               ELSE IF action \notin {"connect", "start", "disconnect", "help", "setting"}
               THEN Answered(t, "Unknown action %v", action)
               ELSE th[t].action = action

\* C16 witness: a command with a wrong name, by a user who cannot be
\* resolved, answered with the not-/zoom message.
C16_Witness ==
    \E t \in Threads :
        /\ Dispatched(t) /\ th[t].pc = "done" /\ ~th[t].userOK
        /\ NthToken(th[t].command, 1) # "/zoom"
        /\ th[t].msg = Msg("Command '%s' is not /zoom. Please try again.",
                           NthToken(th[t].command, 1))

\* C17: an invocation whose command string has no token (empty or only
\* whitespace) does not abort: the parser returns empty fields and the
\* invocation goes on to a normal response.
C17_EmptyInputCompletes ==
    \A t \in Threads :
        (th[t].pc # "idle" /\ TokenPositions(th[t].command) = {}) =>
            /\ th[t].pc \in {"respond", "done"}
            /\ th[t].cmd = "" /\ th[t].action = "" /\ th[t].topic = << >>

\* The start invocation of thread t returned because the channel-membership
\* check or the recent-message scan failed.
LookupFailed(t) ==
    /\ th[t].action = actionStart
    /\ th[t].pc \notin {"idle", actionStart}
    /\ (th[t].member = "err" \/ th[t].found = "err")

\* The start invocation of thread t stopped at the failed lookup: a message
\* for the user, a nil error, no side effect, and neither the auth guard nor
\* the preference was consulted.
AbortedAtLookup(t) ==
    /\ th[t].pc \in {"respond", "done"}
    /\ th[t].msg \in { Msg("We could not get channel members (channelId: %v)",
                           th[t].channel),
                       Msg("Error checking previous messages", "") }
    /\ (th[t].member = "err") <=>
          (th[t].msg.text = "We could not get channel members (channelId: %v)")
    /\ th[t].member = "err" => th[t].found = "na"
    /\ th[t].err = NoErr
    /\ NoSideEffect(th[t])
    /\ th[t].auth = "na" /\ th[t].store = "na" /\ th[t].prefRead = "na"
    /\ th[t].meetingID = NoMeeting
    /\ th[t].pc = "done" =>
          th[t].ephemerals = <<[to |-> th[t].user, text |-> th[t].msg]>>

\* C18 as stated: a start whose membership check or recent-message scan
\* failed returns a message, has no side effect, and the failure is logged
\* as a warning.
C18_LookupFailureLogged ==
    \A t \in Threads :
        LookupFailed(t) =>
            /\ AbortedAtLookup(t)
            /\ th[t].pc = "done" => th[t].warnExec + th[t].warnStore >= 1

\* C18 amended: a start whose membership check or recent-message scan failed
\* returns a non-empty message with a nil error and has no side effect,
\* whatever the user's authentication and preference state; the command
\* writes no warning for it.
C18_LookupFailureAborts ==
    \A t \in Threads :
        LookupFailed(t) =>
            /\ AbortedAtLookup(t)
            /\ th[t].warnExec = 0 /\ th[t].warnStore = 0

\* C18 witness: a finished start whose recent-message scan failed, by a user
\* holding a stored preference.
C18_Witness ==
    \E t \in Threads :
        /\ LookupFailed(t) /\ th[t].pc = "done" /\ th[t].found = "err"
        /\ pref[th[t].user] # ""

\* runConnectCommand has returned on thread t past the permission gate.
ConnectReturned(t) ==
    /\ th[t].action = actionConnect /\ th[t].pc \in {"respond", "done"}
    /\ GatePermits(th[t].user)

\* The credential connect looks for: the shared superuser token on an
\* account-level deployment, the user's linked identity otherwise.
CredentialExists(u) ==
    (config.AccountLevelApp /\ superToken) \/ (~config.AccountLevelApp /\ u \in linked)

\* Thread t takes the step in which runConnectCommand runs.
ConnectStep(t) ==
    /\ th[t].pc = actionConnect /\ th'[t].pc = "respond"
    /\ GatePermits(th[t].user)

ConnectOutcome ==
    \A t \in Threads :
        ConnectReturned(t) =>
            /\ th[t].credFound \in {"yes", "no"}
            /\ th[t].credFound = "yes" =>
                  /\ th[t].msg = Msg("Already connected", "") /\ th[t].err = NoErr
                  /\ th[t].store = "na" /\ th[t].pendingWrites = 0
                  /\ th[t].wrote = NoPending
            /\ th[t].credFound = "no" =>
                  /\ th[t].store \in {"ok", "err"}
                  /\ th[t].store = "ok" =>
                        /\ th[t].pendingWrites = 1
                        /\ th[t].wrote = [channel |-> th[t].channel, flag |-> TRUE,
                                          set |-> TRUE]
                        /\ th[t].msg = Msg("OAuthPrompt", "siteURL")
                        /\ th[t].err = NoErr
                  /\ th[t].store = "err" =>
                        /\ th[t].pendingWrites = 0 /\ th[t].wrote = NoPending
                        /\ IsEmptyMsg(th[t].msg)
                        /\ th[t].err = "cannot store state"

Decided(t) ==
    /\ th[t].action = actionStart
    /\ th[t].pc \in {"start_post", "respond", "done"}
    /\ th[t].member = "ok" /\ th[t].found = "no" /\ th[t].auth = "ok"
    /\ th[t].prefRead # "na"

\* The start invocation of thread t took the branch that the value v
\* selects.
BranchSelectedBy(t, v) ==
    /\ v = "true" =>
          /\ th[t].createCalls = 0 /\ th[t].askPrompts = 0
          /\ th[t].meetingID = th[t].zoomPmi /\ th[t].meetingID # NoMeeting
          /\ th[t].pc = "done" => th[t].postCalls = 1
          /\ th[t].announcements = 1 => th[t].announcedID = th[t].zoomPmi
    /\ v = "false" =>
          /\ th[t].createCalls = 1 /\ th[t].askPrompts = 0
    /\ v = "ask" =>
          /\ th[t].askPrompts = 1 /\ th[t].createCalls = 0
          /\ th[t].meetingID = NoMeeting /\ th[t].announcements = 0

\* The value of a use_pmi setting command: its fourth token.
SettingValue(raw) ==
    IF Cardinality(TokenPositions(raw)) >= 4 THEN NthToken(raw, 4) ELSE ""

\* C20 as stated: a start that passed the guards after a setting command
\* wrote v (no user has a stored preference at the outset, so a stored v was
\* written by a setting command) takes the branch selected by v.
C20_BranchFollowsStoredValue ==
    \A t \in Threads :
        (Decided(t) /\ th[t].prefAt \in {"true", "false", "ask"}) =>
            BranchSelectedBy(t, th[t].prefAt)

\* C20 amended: the preference of a user changes only in the step in which
\* a use_pmi setting command by that user succeeds, and then becomes the
\* value of that command; such a command returns its success message
\* exactly when it wrote. A start that passed the guards reads the value
\* stored at that moment: when the read succeeds it acts on that single
\* value and takes the branch it selects, and when the read fails it shows
\* the ask prompt and creates nothing, whatever value is stored.
C20_PreferenceRoundTrip ==
    /\ [](\A t \in Threads :
             /\ Decided(t) =>
                   /\ th[t].prefAt \in {"", "true", "false", "ask"}
                   /\ th[t].prefRead # "err" =>
                         /\ th[t].prefRead = th[t].prefAt
                         /\ BranchSelectedBy(t, IF th[t].prefAt = "" THEN "ask"
                                                ELSE th[t].prefAt)
                   /\ th[t].prefRead = "err" => BranchSelectedBy(t, "ask")
             /\ (th[t].action = actionSetting /\ th[t].pc \in {"respond", "done"}) =>
                   ((th[t].prefWrites = 1) <=>
                       (th[t].msg = Msg("Update successfully, use_pmi: %v",
                                        SettingValue(th[t].command)))))
    /\ [][\A t \in Threads :
             /\ (th[t].pc = "start_decide" /\ th'[t].pc = "start_post") =>
                   th'[t].prefAt = pref[th[t].user]
             /\ (th[t].pc = actionSetting /\ th'[t].pc = "respond"
                     /\ th'[t].prefWrites = 1) =>
                   pref' = [pref EXCEPT ![th[t].user] = SettingValue(th[t].command)]]_vars
    /\ [][pref' # pref =>
             \E t \in Threads :
                 /\ th[t].pc = actionSetting /\ th'[t].pc = "respond"
                 /\ th'[t].prefWrites = 1
                 /\ SettingValue(th[t].command) \in {"true", "false", "ask"}]_vars

\* C20 witness: a finished start that read and used "true", announcing the
\* identity's PMI with no provider call, while the frame of the same user's
\* successful setting command that wrote it is still on the other thread.
C20_Witness ==
    \E t, w \in Threads :
        /\ t # w
        /\ Decided(t) /\ th[t].pc = "done"
        /\ th[t].prefRead = "true" /\ th[t].prefAt = "true"
        /\ th[t].createCalls = 0 /\ th[t].announcements = 1
        /\ th[t].announcedID = th[t].zoomPmi
        /\ th[w].action = actionSetting /\ th[w].user = th[t].user
        /\ th[w].prefWrites = 1 /\ SettingValue(th[w].command) = "true"

====
